---------------------------- MODULE Spec2Model ----------------------------
(***************************************************************************)
(* A model of the GraphRAG crop-recommendation application:                *)
(*   - graphrag/ingestion/ingestion_graph.py  (extract_json,               *)
(*     extract_knowledge, ingest_document, the main ingestion loop)        *)
(*   - graphrag/retrieval/retrieval_pipeline.py (graph_retrieve,           *)
(*     query_neo4j_for_recommendation, recommend_crop)                     *)
(*                                                                         *)
(* Four specifications share the module:                                   *)
(*   SpecJson    extract_json applied to bounded texts                     *)
(*   SpecIngest  ingest_document and the main loop over the graph store    *)
(*   SpecRec     graph_retrieve and recommend_crop over a seeded graph     *)
(*   Spec        any one of the three                                      *)
(***************************************************************************)
EXTENDS Integers, Sequences, FiniteSets, Bags, TLC

VARIABLES
    \* ---- extract_json -------------------------------------------------
    jpre,       \* the text before the embedded object
    jval,       \* the embedded JSON value (JNone when nothing is embedded)
    jsuf,       \* the text after the embedded object
    jtext,      \* the argument of extract_json
    jpc,        \* "ready" | "returned" | "raised"
    jres,       \* the value extract_json returned (JNone until it returns)
    \* ---- the graph store written by ingestion ------------------------
    graph,      \* [docs, ents, mentioned, related]: nodes and relationships
    \* ---- ingest_document and the main loop ---------------------------
    main,       \* "off" | "running" | "complete" | "aborted"
    docs,       \* the list load_documents returned
    k,          \* index in docs of the main loop's current document
    status,     \* per document of docs: its place in the pipeline
    ipc,        \* position in ingest_document
    cur,        \* the doc argument of the current call
    prompted,   \* the text handed to the LLM (safe_text)
    ei,         \* passes of the entities loop made in this call
    ri,         \* passes of the relations loop made in this call
    listed,     \* the entity names those passes found in kg["entities"]
    dropped,    \* passes of the relations loop that found an endpoint missing
    raisedBy,   \* what raised in the current call ("none" when nothing did)
    isess,      \* the session of the current call (0: none)
    iopen,      \* the sessions of the ingestion driver that are open
    inext,      \* the sessions the ingestion driver has created
    iused,      \* the sessions that earlier operations used
    okLog,      \* the docs of the calls that returned, in order
    failedSince,\* ids a call wrote for and then failed, since their last success
    yielded,    \* <<entity name, document id>> of the successful calls
    \* ---- retrieval_pipeline.py ---------------------------------------
    seed,       \* the seeded graph of crops, soils and nutrients
    rpc,        \* position in graph_retrieve or recommend_crop
    soil,       \* the soil_data argument of recommend_crop
    uq,         \* the nutrient words in the lower-cased user query
    ranked,     \* the rows query_neo4j_for_recommendation returned
    found,      \* the rows graph_retrieve returned
    result,     \* what recommend_crop returned
    llmCalls,   \* llm.invoke calls made by the current operation
    rraisedBy,  \* what raised in the current operation
    rsess,      \* the session of the current operation (0: none)
    ropen,      \* the sessions of the retrieval driver that are open
    rnext,      \* the sessions the retrieval driver has created
    rused       \* the sessions that earlier operations used

jvars == <<jpre, jval, jsuf, jtext, jpc, jres>>
ivars == <<graph, main, docs, k, status, ipc, cur, prompted, ei, ri, listed,
           dropped, raisedBy, isess, iopen, inext, iused, okLog, failedSince, yielded>>
rvars == <<seed, rpc, soil, uq, ranked, found, result, llmCalls, rraisedBy,
           rsess, ropen, rnext, rused>>
vars == <<jvars, ivars, rvars>>

(***************************************************************************)
(* Bounds of the model.                                                    *)
(***************************************************************************)
MaxPre == 2         \* longest prefix, in tokens
MaxSuf == 1         \* longest suffix, in tokens
MaxDepth == 0       \* nesting depth of the embedded object's member value

(***************************************************************************)
(* JSON texts.  A text is a sequence of lexemes: "k" stands for a string   *)
(* literal, "1" for a number literal.  Whitespace is not a lexeme, so      *)
(* text.strip() leaves every text of the model as it is.                   *)
(***************************************************************************)
Tokens == {"{", "}", "k", ":", ",", "1"}

SeqsUpTo(S, n) == UNION {[1..m -> S] : m \in 0..n}

\* JSON values: a number, a string, or an object (a dict: a set of
\* <<key, value>> pairs with one pair per key).
JNone == [t |-> "none", m |-> {}]
JNum == [t |-> "num", m |-> {}]
JStr == [t |-> "str", m |-> {}]
JObj(pairs) == [t |-> "obj", m |-> pairs]

\* dict[key] = value: a repeated key keeps the last value.
DictPut(pairs, key, v) == {p \in pairs : p[1] # key} \cup {<<key, v>>}

Failed == [ok |-> FALSE, val |-> JNone, end |-> 0]

RECURSIVE ParseValue(_, _), ParseMembers(_, _, _)

\* JSONDecoder.raw_decode on text[i..], which starts with "{": the object
\* and the index after it, or a JSONDecodeError.
ParseObject(text, i) ==
    IF i + 1 <= Len(text) /\ text[i + 1] = "}"
    THEN [ok |-> TRUE, val |-> JObj({}), end |-> i + 2]
    ELSE ParseMembers(text, i + 1, {})

ParseValue(text, i) ==
    IF i > Len(text) THEN Failed
    ELSE IF text[i] = "1" THEN [ok |-> TRUE, val |-> JNum, end |-> i + 1]
    ELSE IF text[i] = "k" THEN [ok |-> TRUE, val |-> JStr, end |-> i + 1]
    ELSE IF text[i] = "{" THEN ParseObject(text, i)
    ELSE Failed

\* The members of an object from index j on: "k" ":" value, then "," and
\* more members, or "}".
ParseMembers(text, j, acc) ==
    IF j + 1 > Len(text) \/ text[j] # "k" \/ text[j + 1] # ":" THEN Failed
    ELSE LET v == ParseValue(text, j + 2)
         IN  IF ~v.ok \/ v.end > Len(text) THEN Failed
             ELSE IF text[v.end] = "}"
                  THEN [ok |-> TRUE, val |-> JObj(DictPut(acc, "k", v.val)),
                        end |-> v.end + 1]
             ELSE IF text[v.end] = ","
                  THEN ParseMembers(text, v.end + 1, DictPut(acc, "k", v.val))
             ELSE Failed

\* The positions of text at which a strict parse of an object succeeds.
ValidStarts(text) ==
    {i \in 1..Len(text) : text[i] = "{" /\ ParseObject(text, i).ok}

\* A scan that gives up after the first "{" instead of trying the next one.
ExtractJsonFirstBraceOnly(text) ==
    LET braces == {i \in 1..Len(text) : text[i] = "{"}
    IN  IF braces = {} THEN [ok |-> FALSE, obj |-> JNone]
        ELSE LET i == CHOOSE x \in braces : \A y \in braces : x <= y
                 r == ParseObject(text, i)
             IN  IF r.ok THEN [ok |-> TRUE, obj |-> r.val]
                 ELSE [ok |-> FALSE, obj |-> JNone]

\* extract_json: the object parsed at the first "{" from which a parse
\* succeeds; ok = FALSE is the ValueError.
ExtractJson(text) ==
    LET starts == ValidStarts(text)
    IN  IF starts = {} THEN [ok |-> FALSE, obj |-> JNone]
        ELSE LET i == CHOOSE x \in starts : \A y \in starts : x <= y
             IN  [ok |-> TRUE, obj |-> ParseObject(text, i).val]

\* json.dumps of a value, as lexemes.
RECURSIVE Render(_)
Render(v) ==
    IF v.t = "num" THEN <<"1">>
    ELSE IF v.t = "str" THEN <<"k">>
    ELSE IF v.m = {} THEN <<"{", "}">>
    ELSE LET p == CHOOSE q \in v.m : TRUE
         IN  <<"{", "k", ":">> \o Render(p[2]) \o <<"}">>

\* The objects of nesting depth at most d.
RECURSIVE ObjValues(_)
ObjValues(d) ==
    LET inner == {JNum, JStr} \cup (IF d = 0 THEN {} ELSE ObjValues(d - 1))
    IN  {JObj({})} \cup {JObj({<<"k", v>>}) : v \in inner}

InitJson ==
    /\ jpre \in SeqsUpTo(Tokens, MaxPre)
    /\ jsuf \in SeqsUpTo(Tokens, MaxSuf)
    /\ jval \in ObjValues(MaxDepth) \cup {JNone}
    /\ jtext = jpre \o (IF jval = JNone THEN <<>> ELSE Render(jval)) \o jsuf
    /\ jpc = "ready"
    /\ jres = JNone

\* extract_json is not in use.
JsonOff ==
    /\ jpre = <<>> /\ jsuf = <<>> /\ jval = JNone /\ jtext = <<>>
    /\ jpc = "off" /\ jres = JNone

\* One call extract_json(jtext).
ExtractJsonCall ==
    /\ jpc = "ready"
    /\ LET r == ExtractJson(jtext)
       IN  /\ jpc' = IF r.ok THEN "returned" ELSE "raised"
           /\ jres' = r.obj
    /\ UNCHANGED <<jpre, jval, jsuf, jtext>>
    /\ UNCHANGED <<ivars, rvars>>

NextJson == ExtractJsonCall


(***************************************************************************)
(* The graph store, as the Cypher statements of ingest_document see it.    *)
(* The store is four bags: a node or a relationship has an identity of its *)
(* own, so the store may hold several with the same properties, and no     *)
(* statement of the program reads the identity itself.  A relationship is  *)
(* kept by the keys of the nodes it joins.                                 *)
(***************************************************************************)
EmptyGraph ==
    [docs |-> EmptyBag, ents |-> EmptyBag, mentioned |-> EmptyBag,
     related |-> EmptyBag]

\* The number of elements of bag B that are in set S.
RECURSIVE CopiesOf(_, _)
CopiesOf(B, S) ==
    IF S = {} THEN 0
    ELSE LET x == CHOOSE y \in S : TRUE
         IN  CopiesIn(x, B) + CopiesOf(B, S \ {x})

\* n copies of x.
Copies(x, n) == IF n > 0 THEN [e \in {x} |-> n] ELSE EmptyBag

\* Bag B without the elements that are in set S.
Without(B, S) == [e \in BagToSet(B) \ S |-> B[e]]

DocsWithId(g, id) == {d \in BagToSet(g.docs) : d.id = id}
EntsNamed(g, name) == {e \in BagToSet(g.ents) : e.name = name}
NumDocs(g, id) == CopiesOf(g.docs, DocsWithId(g, id))
NumEnts(g, name) == CopiesOf(g.ents, EntsNamed(g, name))

\* CREATE (d:Document {id: $id}) SET ...: a new node whatever the store holds.
CreateDocument(g, id, source, text) ==
    [g EXCEPT !.docs = @ (+) Copies([id |-> id, source |-> source, text |-> text], 1)]

\* MERGE (d:Document {id: $id}) SET d.source = $source, d.text = $text:
\* a node is created when none matches, and every matching node is set.
MergeDocument(g, id, source, text) ==
    LET node == [id |-> id, source |-> source, text |-> text]
        n == NumDocs(g, id)
    IN  [g EXCEPT !.docs =
            Without(@, DocsWithId(g, id)) (+) Copies(node, IF n = 0 THEN 1 ELSE n)]

\* MERGE (ent:Entity {name: $name}) SET ent.type = $type
MergeEntity(g, name, type) ==
    LET node == [name |-> name, type |-> type]
        n == NumEnts(g, name)
    IN  [g EXCEPT !.ents =
            Without(@, EntsNamed(g, name)) (+) Copies(node, IF n = 0 THEN 1 ELSE n)]

\* MERGE of a relationship for each of rows pairs of nodes, have of which
\* are joined already: one relationship for each pair that is not.
Missing(rows, have) == IF rows > have THEN rows - have ELSE 0

\* The statement with CREATE (ent)-[:MENTIONED_IN]->(d) in place of MERGE.
EntityQueryCreateEdge(g, name, type, doc_id) ==
    LET g1 == MergeEntity(g, name, type)
        rows == NumEnts(g1, name) * NumDocs(g1, doc_id)
    IN  [g1 EXCEPT !.mentioned = @ (+) Copies(<<name, doc_id>>, rows)]

\* MERGE (ent:Entity {name: $name}) SET ent.type = $type WITH ent
\* MATCH (d:Document {id: $doc_id}) MERGE (ent)-[:MENTIONED_IN]->(d)
EntityQuery(g, name, type, doc_id) ==
    LET g1 == MergeEntity(g, name, type)
        rows == NumEnts(g1, name) * NumDocs(g1, doc_id)
        edge == <<name, doc_id>>
    IN  [g1 EXCEPT !.mentioned =
            @ (+) Copies(edge, Missing(rows, CopiesIn(edge, @)))]

\* The statement with MERGE (a:Entity ...) MERGE (b:Entity ...) in place of
\* the two MATCH clauses: a missing endpoint is created.
RelationQueryMergeEndpoints(g, src, tgt, rel) ==
    LET g1 == IF NumEnts(g, src) = 0
              THEN [g EXCEPT !.ents = @ (+) Copies([name |-> src, type |-> "?"], 1)]
              ELSE g
        g2 == IF NumEnts(g1, tgt) = 0
              THEN [g1 EXCEPT !.ents = @ (+) Copies([name |-> tgt, type |-> "?"], 1)]
              ELSE g1
        rows == NumEnts(g2, src) * NumEnts(g2, tgt)
        edge == [source |-> src, target |-> tgt, type |-> rel]
    IN  [g2 EXCEPT !.related =
            @ (+) Copies(edge, Missing(rows, CopiesIn(edge, @)))]

\* MATCH (a:Entity {name: $src}) MATCH (b:Entity {name: $tgt})
\* MERGE (a)-[:RELATED_TO {type: $rel}]->(b)
RelationQuery(g, src, tgt, rel) ==
    LET rows == NumEnts(g, src) * NumEnts(g, tgt)
        edge == [source |-> src, target |-> tgt, type |-> rel]
    IN  [g EXCEPT !.related =
            @ (+) Copies(edge, Missing(rows, CopiesIn(edge, @)))]

(***************************************************************************)
(* The inputs of ingestion.                                                *)
(***************************************************************************)
MaxEnts == 2        \* longest "entities" list of an extraction
MaxRels == 1        \* longest "relations" list of an extraction
MaxSessions == 2    \* sessions a driver creates in one behaviour

MAX_CHARS == 2000

DocIds == {"d1", "d2"}
Sources == {"a.txt"}
\* A text: what it says and how many characters it has.
Texts == {[body |-> "t1", chars |-> 1200], [body |-> "t2", chars |-> 2600]}
Docs == [id : DocIds, source : Sources, text : Texts]
NoDoc == [id |-> "-", source |-> "-", text |-> [body |-> "-", chars |-> 0]]

\* doc["text"][:MAX_CHARS]
SafeText(text) ==
    [text EXCEPT !.chars = IF @ > MAX_CHARS THEN MAX_CHARS ELSE @]

Names == {"Rice", "Soil"}
Types == {"Crop"}
RelTypes == {"NEEDS"}
EntItems == [name : Names, type : Types]
RelItems == [source : Names, relation : RelTypes, target : Names]

\* What the LLM answers, as lexemes: two texts without a JSON object and
\* one with.  The lists of the object a text holds are not spelled out by
\* the lexemes: the item a pass of a loop handles is drawn when the pass
\* runs, which gives the runs that drawing kg as a whole at extraction gives.
LLMOutputs == {<<"k">>, <<"{", "k", "}">>, <<"k", "{", "}", "k">>}

\* load_documents: one doc per file, each with a fresh uuid4 as its id.
DocLists ==
    {l \in SeqsUpTo(Docs, Cardinality(DocIds)) :
        \A a, b \in DOMAIN l : a # b => l[a].id # l[b].id}

\* driver.session(): a new session.
DriverSession(created) == created + 1

\* Leaving the with block by an exception without closing the session.
SessionExitLeak(open, s) == open

\* Leaving the with block (normally or by an exception): session.close().
SessionExit(open, s) == open \ {s}

IngestOff ==
    /\ graph = EmptyGraph
    /\ main = "none" /\ docs = <<>> /\ k = 0 /\ status = <<>>
    /\ ipc = "off" /\ cur = NoDoc /\ prompted = NoDoc.text
    /\ ei = 0 /\ ri = 0 /\ listed = {} /\ dropped = 0 /\ raisedBy = "none"
    /\ isess = 0 /\ iopen = {} /\ inext = 0 /\ iused = {}
    /\ okLog = <<>>
    /\ failedSince = {}
    /\ yielded = {}

InitIngest ==
    /\ graph = EmptyGraph
    /\ main = "off" /\ docs = <<>> /\ k = 0 /\ status = <<>>
    /\ ipc = "idle" /\ cur = NoDoc /\ prompted = NoDoc.text
    /\ ei = 0 /\ ri = 0 /\ listed = {} /\ dropped = 0 /\ raisedBy = "none"
    /\ isess = 0 /\ iopen = {} /\ inext = 0 /\ iused = {}
    /\ okLog = <<>>
    /\ failedSince = {}
    /\ yielded = {}

\* The frame of a call of ingest_document(doc).
Enter(doc) ==
    /\ ipc' = "extract"
    /\ cur' = doc
    /\ prompted' = SafeText(doc.text)
    /\ ei' = 0 /\ ri' = 0 /\ listed' = {} /\ dropped' = 0 /\ raisedBy' = "none"
    /\ isess' = 0

\* A caller other than the main loop calls ingest_document(doc).
CallIngest ==
    /\ main = "off" /\ ipc \in {"idle", "returned", "raised"}
    /\ inext < MaxSessions
    /\ \E doc \in Docs : Enter(doc)
    /\ UNCHANGED <<graph, main, docs, k, status, iopen, inext, iused,
                   okLog, failedSince, yielded>>
    /\ UNCHANGED <<jvars, rvars>>

\* __main__: docs = load_documents()
LoadDocuments ==
    /\ main = "off" /\ ipc = "idle"
    /\ \E l \in DocLists :
          /\ docs' = l
          /\ status' = [i \in DOMAIN l |-> "Loaded"]
    /\ main' = "running" /\ k' = 1
    /\ UNCHANGED <<graph, ipc, cur, prompted, ei, ri, listed, dropped, raisedBy, isess,
                   iopen, inext, iused, okLog, failedSince, yielded>>
    /\ UNCHANGED <<jvars, rvars>>

\* for doc in docs: ingest_document(doc)
MainCall ==
    /\ main = "running" /\ ipc = "idle" /\ k <= Len(docs)
    /\ Enter(docs[k])
    /\ UNCHANGED <<graph, main, docs, k, status, iopen, inext, iused,
                   okLog, failedSince, yielded>>
    /\ UNCHANGED <<jvars, rvars>>

\* extract_knowledge(safe_text): llm.invoke, then extract_json on its answer.
\* Either may raise; nothing of ingest_document catches it.
ExtractKnowledge ==
    /\ ipc = "extract"
    /\ \/ \E out \in LLMOutputs :
            IF ExtractJson(out).ok
            THEN /\ ipc' = "session"
                 /\ raisedBy' = "none"
                 /\ status' = IF main = "running"
                              THEN [status EXCEPT ![k] = "Extracted"]
                              ELSE status
            ELSE /\ ipc' = "raised"
                 /\ raisedBy' = "extract_json"
                 /\ status' = status
       \/ /\ ipc' = "raised" /\ raisedBy' = "llm"
          /\ status' = status
    /\ UNCHANGED <<graph, main, docs, k, cur, prompted, ei, ri, listed,
                   dropped, isess, iopen, inext, iused, okLog, failedSince,
                   yielded>>
    /\ UNCHANGED <<jvars, rvars>>

\* with driver.session() as session:
OpenSession ==
    /\ ipc = "session"
    /\ isess' = DriverSession(inext)
    /\ inext' = inext + 1
    /\ iopen' = iopen \cup {isess'}
    /\ ipc' = "document"
    /\ UNCHANGED <<graph, main, docs, k, status, cur, prompted, ei, ri, listed,
                   dropped, raisedBy, iused, okLog, failedSince, yielded>>
    /\ UNCHANGED <<jvars, rvars>>

\* A statement fails in the store: the exception leaves the with block.
QueryRaises ==
    /\ ipc' = "raised" /\ raisedBy' = "store"
    /\ iopen' = SessionExit(iopen, isess)
    /\ iused' = iused \cup {isess}
    /\ graph' = graph

\* session.run of the Document statement.
RunDocumentQuery ==
    /\ ipc = "document"
    /\ \/ /\ graph' = MergeDocument(graph, cur.id, cur.source, cur.text)
          /\ ipc' = "entities"
          /\ failedSince' = failedSince \cup {cur.id}
          /\ UNCHANGED <<raisedBy, iopen, iused>>
       \/ /\ QueryRaises
          /\ failedSince' = failedSince
    /\ UNCHANGED <<main, docs, k, status, cur, prompted, ei, ri, listed,
                   dropped, isess, inext, okLog, yielded>>
    /\ UNCHANGED <<jvars, rvars>>

\* for e in kg.get("entities", []): session.run of the Entity statement.
RunEntityQuery ==
    /\ ipc = "entities" /\ ei < MaxEnts
    /\ \/ \E e \in EntItems :
            /\ graph' = EntityQuery(graph, e.name, e.type, cur.id)
            /\ listed' = listed \cup {e.name}
            /\ ei' = ei + 1
            /\ UNCHANGED <<ipc, raisedBy, iopen, iused>>
       \/ /\ QueryRaises
          /\ UNCHANGED <<ei, listed>>
    /\ UNCHANGED <<main, docs, k, status, cur, prompted, ri, dropped, isess,
                   inext, okLog, failedSince, yielded>>
    /\ UNCHANGED <<jvars, rvars>>

\* The entities loop is over.
EntitiesDone ==
    /\ ipc = "entities"
    /\ ipc' = "relations"
    /\ UNCHANGED <<graph, main, docs, k, status, cur, prompted, ei, ri, listed,
                   dropped, raisedBy, isess, iopen, inext, iused, okLog,
                   failedSince, yielded>>
    /\ UNCHANGED <<jvars, rvars>>

\* for r in kg.get("relations", []): session.run of the relation statement.
RunRelationQuery ==
    /\ ipc = "relations" /\ ri < MaxRels
    /\ \/ \E r \in RelItems :
            /\ graph' = RelationQuery(graph, r.source, r.target, r.relation)
            /\ dropped' = IF NumEnts(graph, r.source) = 0
                             \/ NumEnts(graph, r.target) = 0
                          THEN dropped + 1 ELSE dropped
            /\ ri' = ri + 1
            /\ UNCHANGED <<ipc, raisedBy, iopen, iused>>
       \/ /\ QueryRaises
          /\ UNCHANGED <<ri, dropped>>
    /\ UNCHANGED <<main, docs, k, status, cur, prompted, ei, listed, isess,
                   inext, okLog, failedSince, yielded>>
    /\ UNCHANGED <<jvars, rvars>>

\* The relations loop is over: the with block ends and ingest_document
\* returns.
IngestReturn ==
    /\ ipc = "relations"
    /\ iopen' = SessionExit(iopen, isess)
    /\ iused' = iused \cup {isess}
    /\ ipc' = "returned"
    /\ okLog' = Append(okLog, cur)
    /\ failedSince' = failedSince \ {cur.id}
    /\ yielded' = yielded \cup {<<n, cur.id>> : n \in listed}
    /\ UNCHANGED <<graph, main, docs, k, status, cur, prompted, ei, ri, listed,
                   dropped, raisedBy, isess, inext>>
    /\ UNCHANGED <<jvars, rvars>>

\* print("Ingested"): the loop goes on to the next document.
MainNext ==
    /\ main = "running" /\ ipc = "returned"
    /\ status' = [status EXCEPT ![k] = "Upserted"]
    /\ k' = k + 1
    /\ ipc' = "idle"
    /\ UNCHANGED <<graph, main, docs, cur, prompted, ei, ri, listed, dropped, raisedBy,
                   isess, iopen, inext, iused, okLog, failedSince, yielded>>
    /\ UNCHANGED <<jvars, rvars>>

\* An exception of ingest_document leaves the for loop and ends the script:
\* no later document is ingested and driver.close() is not reached.
MainRaise ==
    /\ main = "running" /\ ipc = "raised"
    /\ main' = "aborted"
    /\ status' = IF raisedBy = "extract_json"
                 THEN [status EXCEPT ![k] = "ExtractionFailed"]
                 ELSE status
    /\ UNCHANGED <<graph, docs, k, ipc, cur, prompted, ei, ri, listed, dropped, raisedBy,
                   isess, iopen, inext, iused, okLog, failedSince, yielded>>
    /\ UNCHANGED <<jvars, rvars>>

\* driver.close() after the loop.
MainClose ==
    /\ main = "running" /\ ipc = "idle" /\ k > Len(docs)
    /\ main' = "complete"
    /\ UNCHANGED <<graph, docs, k, status, ipc, cur, prompted, ei, ri, listed, dropped,
                   raisedBy, isess, iopen, inext, iused, okLog, failedSince,
                   yielded>>
    /\ UNCHANGED <<jvars, rvars>>

NextIngest ==
    \/ CallIngest
    \/ LoadDocuments
    \/ MainCall
    \/ ExtractKnowledge
    \/ OpenSession
    \/ RunDocumentQuery
    \/ RunEntityQuery
    \/ EntitiesDone
    \/ RunRelationQuery
    \/ IngestReturn
    \/ MainNext
    \/ MainRaise
    \/ MainClose

(***************************************************************************)
(* The seeded graph read by retrieval_pipeline.py: Crop, Soil and Nutrient *)
(* nodes with REQUIRES and GROWS_IN relationships.  A soil's pH is kept in *)
(* tenths (65 is pH 6.5), so that every amount is an integer.              *)
(***************************************************************************)
MaxDelta == 1       \* an input amount exceeds the seeded one by at most this

Abs(x) == IF x < 0 THEN -x ELSE x

Crops == {"Rice", "Wheat"}
Soils == {"s1", "s2"}

\* Strings that are searched are sequences of characters.
ToLowerChar(c) ==
    CASE c = "C" -> "c" [] c = "L" -> "l" [] c = "S" -> "s" [] c = "P" -> "p"
      [] OTHER -> c
ToLower(str) == [i \in DOMAIN str |-> ToLowerChar(str[i])]

\* a CONTAINS b
Contains(a, b) ==
    \E i \in 0..(Len(a) - Len(b)) : \A j \in 1..Len(b) : a[i + j] = b[j]

SoilNodes ==
    [s \in Soils |->
        IF s = "s1"
        THEN [type |-> <<"C", "l">>, ph |-> 65, moisture_percent |-> 60,
              salinity_dsm |-> 2]
        ELSE [type |-> <<"S", "l">>, ph |-> 66, moisture_percent |-> 60,
              salinity_dsm |-> 2]]

\* The REQUIRES relationships of a crop: nutrient name -> mgkg.
NPK == [Nitrogen |-> 40, Phosphorus |-> 20, Potassium |-> 30]
ZincOnly == [Zinc |-> 5]
NoReq == <<>>

ReqChoices ==
    {[c \in Crops |-> IF c = "Rice" THEN NPK ELSE w] :
        w \in {NPK, ZincOnly, NoReq}}

GrowChoices ==
    { {<<"Rice", "s1">>, <<"Wheat", "s1">>},
      {<<"Rice", "s1">>, <<"Rice", "s2">>, <<"Wheat", "s1">>},
      {<<"Rice", "s1">>, <<"Rice", "s2">>, <<"Wheat", "s1">>, <<"Wheat", "s2">>} }

\* Crop names are unique: a crop is its name.
SeedGraphs ==
    [temperature_c : {[c \in Crops |-> IF c = "Rice" THEN t ELSE 20] : t \in {20, 21}},
     requires : ReqChoices,
     grows_in : GrowChoices,
     soil : {SoilNodes}]

NoSeed ==
    [temperature_c |-> [c \in Crops |-> 0], requires |-> [c \in Crops |-> NoReq],
     grows_in |-> {}, soil |-> SoilNodes]

Near(v) == {v + d : d \in 0..MaxDelta}

\* soil_data: the amounts near the seeded ones, and a soil type.
SoilInputs ==
    [N : Near(40), P : Near(20), K : Near(30), T : Near(20), pH : Near(65),
     M : Near(60), salinity : Near(2),
     soil_type : {<<"L">>, <<"C">>, <<"P">>}]
NoSoil ==
    [N |-> 0, P |-> 0, K |-> 0, T |-> 0, pH |-> 0, M |-> 0, salinity |-> 0,
     soil_type |-> <<>>]

(***************************************************************************)
(* query_neo4j_for_recommendation                                          *)
(***************************************************************************)
Limit == 3

\* CASE WHEN X IS NULL THEN 0 ELSE abs($X - X.mgkg) END
NutrientTerm(req, name, amount) ==
    IF name \in DOMAIN req THEN Abs(amount - req[name]) ELSE 0

\* The score with the temperature term signed: abs() left out.
ScoreSignedTemperature(g, c, s, sd) ==
    NutrientTerm(g.requires[c], "Nitrogen", sd.N)
    + NutrientTerm(g.requires[c], "Phosphorus", sd.P)
    + NutrientTerm(g.requires[c], "Potassium", sd.K)
    + Abs(sd.pH - g.soil[s].ph)
    + Abs(sd.M - g.soil[s].moisture_percent)
    + Abs(sd.salinity - g.soil[s].salinity_dsm)
    + (sd.T - g.temperature_c[c])

\* The score of the row of crop c and soil s.
Score(g, c, s, sd) ==
    NutrientTerm(g.requires[c], "Nitrogen", sd.N)
    + NutrientTerm(g.requires[c], "Phosphorus", sd.P)
    + NutrientTerm(g.requires[c], "Potassium", sd.K)
    + Abs(sd.pH - g.soil[s].ph)
    + Abs(sd.M - g.soil[s].moisture_percent)
    + Abs(sd.salinity - g.soil[s].salinity_dsm)
    + Abs(sd.T - g.temperature_c[c])

\* MATCH (c:Crop)-[r:REQUIRES]->(n:Nutrient), (c)-[:GROWS_IN]->(s:Soil)
\* WHERE toLower(s.type) CONTAINS toLower($soil_type): one row per c, s.
Candidates(g, sd) ==
    {cs \in g.grows_in :
        /\ DOMAIN g.requires[cs[1]] # {}
        /\ Contains(ToLower(g.soil[cs[2]].type), ToLower(sd.soil_type))}

\* The orders ORDER BY score ASC may return the rows in: equal scores come
\* in any order.
Orderings(g, sd) ==
    LET rows == Candidates(g, sd)
        n == Cardinality(rows)
    IN  {o \in [1..n -> rows] :
            /\ \A a, b \in 1..n : a # b => o[a] # o[b]
            /\ \A a \in 1..n : a < n =>
                  Score(g, o[a][1], o[a][2], sd)
                      <= Score(g, o[a + 1][1], o[a + 1][2], sd)}

\* RETURN c.name AS crop, ... AS score ORDER BY score ASC LIMIT 3
RankedRows(g, sd, o) ==
    [i \in 1..(IF Len(o) < Limit THEN Len(o) ELSE Limit) |->
        [crop |-> o[i][1], score |-> Score(g, o[i][1], o[i][2], sd)]]

(***************************************************************************)
(* graph_retrieve                                                          *)
(***************************************************************************)
SalinityMax == 3
MoistureMin == 55
TempMin == 18
TempMax == 26
PhMin == 60
PhMax == 70

UserQueries == SUBSET {"potassium", "nitrogen", "phosphorus"}

\* The nutrient the query names: the first of the three words it holds.
Nutrient(words) ==
    IF "potassium" \in words THEN "Potassium"
    ELSE IF "nitrogen" \in words THEN "Nitrogen"
    ELSE IF "phosphorus" \in words THEN "Phosphorus"
    ELSE "None"

\* Case 1: the crops that require the nutrient, with the required amount.
NutrientRows(g, nutrient) ==
    {[crop |-> cs[1], soil |-> cs[2], value |-> g.requires[cs[1]][nutrient]] :
        cs \in {x \in g.grows_in :
                  /\ nutrient \in DOMAIN g.requires[x[1]]
                  /\ g.soil[x[2]].salinity_dsm <= SalinityMax
                  /\ g.soil[x[2]].moisture_percent >= MoistureMin}}

\* Case 2: the crops suitable in general.
GeneralRows(g) ==
    {[crop |-> cs[1], soil |-> cs[2]] :
        cs \in {x \in g.grows_in :
                  /\ g.temperature_c[x[1]] >= TempMin
                  /\ g.temperature_c[x[1]] <= TempMax
                  /\ g.soil[x[2]].ph >= PhMin /\ g.soil[x[2]].ph <= PhMax
                  /\ g.soil[x[2]].moisture_percent >= MoistureMin
                  /\ g.soil[x[2]].salinity_dsm <= SalinityMax}}

RetrieveRows(g, words) ==
    IF Nutrient(words) # "None" THEN NutrientRows(g, Nutrient(words))
    ELSE GeneralRows(g)

(***************************************************************************)
(* recommend_crop                                                          *)
(***************************************************************************)
NoResult == [crop |-> "-", alternatives |-> <<>>, explanation |-> "-"]
Sentinel ==
    [crop |-> "None", alternatives |-> <<>>,
     explanation |-> "No crops are suitable for the given soil conditions."]

\* The test "if len(ranked_crops) < 2".
FewerThanTwo(rows) == Len(rows) < 2

\* if not ranked_crops
NotRanked(rows) == rows = <<>>

\* alternatives = [r["crop"] for r in ranked_crops[1:]]
Alternatives(rows) == [i \in 1..(Len(rows) - 1) |-> rows[i + 1].crop]

RecOff ==
    /\ seed = NoSeed /\ rpc = "off" /\ soil = NoSoil /\ uq = {}
    /\ ranked = <<>> /\ found = {} /\ result = NoResult /\ llmCalls = 0
    /\ rraisedBy = "none"
    /\ rsess = 0 /\ ropen = {} /\ rnext = 0 /\ rused = {}

InitRec ==
    /\ seed \in SeedGraphs
    /\ rpc = "idle" /\ soil = NoSoil /\ uq = {}
    /\ ranked = <<>> /\ found = {} /\ result = NoResult /\ llmCalls = 0
    /\ rraisedBy = "none"
    /\ rsess = 0 /\ ropen = {} /\ rnext = 0 /\ rused = {}

\* An operation begins: its results are not there yet, and its first
\* statement is with driver.session() as session.
Begin ==
    /\ rpc = "idle"
    /\ rnext < MaxSessions
    /\ rsess' = DriverSession(rnext)
    /\ rnext' = rnext + 1
    /\ ropen' = ropen \cup {rsess'}
    /\ UNCHANGED <<seed, rused>>

\* recommend_crop(soil_data) calls query_neo4j_for_recommendation(soil_data).
RecommendCall ==
    /\ Begin
    /\ \E sd \in SoilInputs : soil' = sd
    /\ rpc' = "rc_query"
    /\ UNCHANGED <<uq, ranked, found, result, llmCalls, rraisedBy>>
    /\ UNCHANGED <<jvars, ivars>>

\* session.run of the ranking statement and the with block's end: the rows
\* come back, or the statement raises.
RecommendQuery ==
    /\ rpc = "rc_query"
    /\ \/ /\ \E o \in Orderings(seed, soil) : ranked' = RankedRows(seed, soil, o)
          /\ rpc' = "rc_ranked"
          /\ rraisedBy' = rraisedBy
       \/ /\ ranked' = ranked
          /\ rpc' = "raised" /\ rraisedBy' = "store"
    /\ ropen' = SessionExit(ropen, rsess)
    /\ rused' = rused \cup {rsess}
    /\ UNCHANGED <<seed, soil, uq, found, result, llmCalls, rsess, rnext>>
    /\ UNCHANGED <<jvars, ivars>>

\* if not ranked_crops: return the sentinel.
RecommendNothing ==
    /\ rpc = "rc_ranked" /\ NotRanked(ranked)
    /\ result' = Sentinel
    /\ rpc' = "returned"
    /\ UNCHANGED <<seed, soil, uq, ranked, found, llmCalls, rraisedBy, rsess,
                   ropen, rnext, rused>>
    /\ UNCHANGED <<jvars, ivars>>

\* The explanation: llm.invoke(prompt).content, or the exception of the call.
RecommendExplain ==
    /\ rpc = "rc_ranked" /\ ~NotRanked(ranked)
    /\ llmCalls' = llmCalls + 1
    /\ \/ /\ result' = [crop |-> ranked[1].crop,
                        alternatives |-> Alternatives(ranked),
                        explanation |-> "llm"]
          /\ rpc' = "returned"
          /\ rraisedBy' = rraisedBy
       \/ /\ result' = result
          /\ rpc' = "raised" /\ rraisedBy' = "llm"
    /\ UNCHANGED <<seed, soil, uq, ranked, found, rsess, ropen, rnext, rused>>
    /\ UNCHANGED <<jvars, ivars>>

\* graph_retrieve(user_query)
RetrieveCall ==
    /\ Begin
    /\ \E words \in UserQueries : uq' = words
    /\ rpc' = "gr_query"
    /\ UNCHANGED <<soil, ranked, found, result, llmCalls, rraisedBy>>
    /\ UNCHANGED <<jvars, ivars>>

\* session.run of one of the two statements, rows = [dict(r) for r in
\* result], and the with block's end.
RetrieveQuery ==
    /\ rpc = "gr_query"
    /\ \/ /\ found' = RetrieveRows(seed, uq)
          /\ rpc' = "returned"
          /\ rraisedBy' = rraisedBy
       \/ /\ found' = found
          /\ rpc' = "raised" /\ rraisedBy' = "store"
    /\ ropen' = SessionExit(ropen, rsess)
    /\ rused' = rused \cup {rsess}
    /\ UNCHANGED <<seed, soil, uq, ranked, result, llmCalls, rsess, rnext>>
    /\ UNCHANGED <<jvars, ivars>>

\* The caller has the operation's result or its exception.
Resume ==
    /\ rpc \in {"returned", "raised"}
    /\ rpc' = "idle"
    /\ soil' = NoSoil /\ uq' = {}
    /\ ranked' = <<>> /\ found' = {} /\ result' = NoResult /\ llmCalls' = 0
    /\ rraisedBy' = "none" /\ rsess' = 0
    /\ UNCHANGED <<seed, ropen, rnext, rused>>
    /\ UNCHANGED <<jvars, ivars>>

NextRec ==
    \/ Resume
    \/ RecommendCall
    \/ RecommendQuery
    \/ RecommendNothing
    \/ RecommendExplain
    \/ RetrieveCall
    \/ RetrieveQuery

(***************************************************************************)
(* The specifications.                                                     *)
(***************************************************************************)
JsonInit == InitJson /\ IngestOff /\ RecOff
IngestInit == JsonOff /\ InitIngest /\ RecOff
RecInit == JsonOff /\ IngestOff /\ InitRec

SpecJson == JsonInit /\ [][NextJson]_vars
SpecIngest == IngestInit /\ [][NextIngest]_vars
SpecRec == RecInit /\ [][NextRec]_vars

\* Each behaviour is one of the three: the extractor alone, the ingestion
\* script, or the retrieval process.
Init == JsonInit \/ IngestInit \/ RecInit
Next == NextJson \/ NextIngest \/ NextRec
Spec == Init /\ [][Next]_vars

(***************************************************************************)
(* C6 (as stated): for any text formed by concatenating arbitrary prefix   *)
(* garbage, a valid JSON object literal and arbitrary suffix garbage,      *)
(* extract_json returns an object equal to the embedded one.               *)
(***************************************************************************)
C6_AnyPrefixReturnsEmbedded ==
    (jval # JNone /\ jpc # "ready") => (jpc = "returned" /\ jres = jval)

\* No "{" of the prefix starts a valid object of the whole text.
PrefixHasNoValidStart == \A i \in ValidStarts(jtext) : i > Len(jpre)

(***************************************************************************)
(* C6 (amended): when no "{" of the prefix starts a valid JSON object of   *)
(* the concatenated text, extract_json returns an object equal to the      *)
(* embedded one; in every case it returns the object parsed at the first   *)
(* "{" from which a parse succeeds.                                        *)
(***************************************************************************)
C6_ReturnsEmbeddedUnlessEarlierObject ==
    (jval # JNone /\ jpc # "ready") =>
        /\ jpc = "returned"
        /\ PrefixHasNoValidStart => jres = jval
        /\ \E i \in ValidStarts(jtext) :
              /\ jres = ParseObject(jtext, i).val
              /\ \A j \in ValidStarts(jtext) : i <= j

\* extract_json returned the embedded object from behind a prefix that
\* holds a "{" (one that starts no valid object).
C6_Witness ==
    /\ jpc = "returned"
    /\ jval # JNone
    /\ Len(jpre) > 0
    /\ \E i \in 1..Len(jpre) : jpre[i] = "{"
    /\ PrefixHasNoValidStart
    /\ jres = jval
    /\ jval # JObj({})


\* The doc of the last call with this id that returned (NoDoc when none did).
LastOk(id) ==
    LET at == {i \in DOMAIN okLog : okLog[i].id = id}
    IN  IF at = {} THEN NoDoc
        ELSE okLog[CHOOSE i \in at : \A j \in at : j <= i]

\* The Document node of cur is in the store with cur's full text.
CurPersisted ==
    \E d \in DocsWithId(graph, cur.id) : d.text = cur.text

(***************************************************************************)
(* C1: when the LLM response holds no valid JSON object (extract_json      *)
(* fails), the Document node of that document is still persisted with its  *)
(* full original text.                                                     *)
(***************************************************************************)
C1_DocumentPersistedWhenExtractionFails ==
    (ipc = "raised" /\ raisedBy = "extract_json") => CurPersisted

(***************************************************************************)
(* C2: in the main pipeline every loaded document reaches one of the       *)
(* terminal states Upserted or ExtractionFailed: when the script has       *)
(* ended and nothing but extractions failed, no document is left in        *)
(* another state.                                                          *)
(***************************************************************************)
C2_EveryDocumentReachesATerminalState ==
    (main \in {"complete", "aborted"} /\ raisedBy \in {"none", "extract_json"})
        => \A i \in DOMAIN docs : status[i] \in {"Upserted", "ExtractionFailed"}

(***************************************************************************)
(* C3: the store never holds two Document nodes with one id, and after     *)
(* calls that returned (no call for the id has failed since) the node of   *)
(* an id holds the source and the text of the last call with that id.      *)
(***************************************************************************)
C3_OneDocumentPerIdWithLatestText ==
    \A id \in DocIds :
        /\ NumDocs(graph, id) <= 1
        /\ (LastOk(id) # NoDoc /\ id \notin failedSince) =>
              /\ NumDocs(graph, id) = 1
              /\ LastOk(id) \in DocsWithId(graph, id)

\* The same id was ingested twice, with different texts, and both calls
\* returned.
C3_Witness ==
    /\ ipc = "returned"
    /\ Len(okLog) = 2
    /\ okLog[1].id = okLog[2].id
    /\ okLog[1].text # okLog[2].text
    /\ failedSince = {}

\* Both endpoints of every RELATED_TO relationship are Entity nodes.
NoOrphanRelation ==
    \A e \in BagToSet(graph.related) :
        NumEnts(graph, e.source) >= 1 /\ NumEnts(graph, e.target) >= 1

\* A pass of the relations loop that finds an endpoint missing changes
\* nothing in the store and the loop goes on.
SilentDrop ==
    dropped' = dropped + 1 => (graph' = graph /\ ipc' = "relations")

(***************************************************************************)
(* C4: merging a relation whose source or target matches no Entity node    *)
(* creates no RELATED_TO relationship and no Entity node and raises        *)
(* nothing; in every state both endpoints of every RELATED_TO relationship *)
(* are Entity nodes.                                                       *)
(***************************************************************************)
C4_MissingEndpointDropsRelation ==
    []NoOrphanRelation /\ [][SilentDrop]_vars

\* A call returned after a relation with a missing endpoint was handled:
\* there are Entity nodes and a Document node, and no RELATED_TO.
C4_Witness ==
    /\ ipc = "returned"
    /\ dropped > 0
    /\ ei > 0
    /\ graph.related = EmptyBag
    /\ NumEnts(graph, "Rice") = 1 /\ NumEnts(graph, "Soil") = 0

(***************************************************************************)
(* C5: for every entity name an extraction yielded for a document in a     *)
(* call that returned, there is exactly one Entity node of that name,      *)
(* and exactly one MENTIONED_IN relationship from it to the Document of    *)
(* that id.                                                                *)
(***************************************************************************)
C5_OneEntityOneMention ==
    \A y \in yielded :
        /\ NumEnts(graph, y[1]) = 1
        /\ NumDocs(graph, y[2]) = 1
        /\ CopiesIn(y, graph.mentioned) = 1

\* "Rice" was listed twice by the last call and is mentioned by both
\* documents.
C5_Witness ==
    /\ ipc = "returned"
    /\ ei = 2 /\ listed = {"Rice"}
    /\ {<<"Rice", "d1">>, <<"Rice", "d2">>} \subseteq yielded

(***************************************************************************)
(* C9: every graph operation has a session of its own, which no earlier    *)
(* operation used, and the session is closed when the operation has ended, *)
(* by a return or by an exception.                                         *)
(***************************************************************************)
C9_SessionsScoped ==
    /\ ipc \in {"document", "entities", "relations"} =>
          (iopen = {isess} /\ isess \notin iused)
    /\ ipc \notin {"document", "entities", "relations"} => iopen = {}
    /\ rpc \in {"rc_query", "gr_query"} =>
          (ropen = {rsess} /\ rsess \notin rused)
    /\ rpc \notin {"rc_query", "gr_query"} => ropen = {}

\* The second operation of the ingestion driver ended by an exception of a
\* statement, after its Document statement had run.
C9_Witness ==
    /\ ipc = "raised" /\ raisedBy = "store"
    /\ iused = {1, 2}
    /\ cur.id \in failedSince


\* Every delta of the row of crop c and soil s is zero: the input is the
\* crop's requirement in each nutrient it requires, its temperature, and its
\* soil's pH, moisture and salinity.
ExactMatch(g, c, s, sd) ==
    /\ \A n \in {"Nitrogen", "Phosphorus", "Potassium"} \cap DOMAIN g.requires[c] :
          g.requires[c][n] = (CASE n = "Nitrogen" -> sd.N
                                [] n = "Phosphorus" -> sd.P
                                [] n = "Potassium" -> sd.K)
    /\ sd.pH = g.soil[s].ph
    /\ sd.M = g.soil[s].moisture_percent
    /\ sd.salinity = g.soil[s].salinity_dsm
    /\ sd.T = g.temperature_c[c]

\* The soil's type holds the soil_type of the input, whatever the case.
PassesFilter(g, s, sd) ==
    \E i \in 0..(Len(g.soil[s].type) - Len(sd.soil_type)) :
        \A j \in 1..Len(sd.soil_type) :
            ToLowerChar(g.soil[s].type[i + j]) = ToLowerChar(sd.soil_type[j])

\* The rows of the seeded graph the input matches exactly, with a soil that
\* passes the filter.
ExactRows ==
    {cs \in seed.grows_in :
        ExactMatch(seed, cs[1], cs[2], soil) /\ PassesFilter(seed, cs[2], soil)}

\* recommend_crop has the ranked list.
HasRanking == rpc = "rc_ranked" \/ (rpc \in {"returned", "raised"} /\ llmCalls > 0)
    \/ (rpc = "returned" /\ result = Sentinel)

C8_SentinelIffNoRows ==
    /\ result = Sentinel =>
          (rpc = "returned" /\ ranked = <<>> /\ llmCalls = 0 /\ rraisedBy = "none"
           /\ Candidates(seed, soil) = {})
    /\ (rpc = "returned" /\ soil # NoSoil) => (result = Sentinel <=> ranked = <<>>)
    /\ rpc = "raised" => (result = NoResult /\ rraisedBy \in {"store", "llm"})

\* The sentinel was returned for a soil type no seeded soil has.
C8_Witness ==
    /\ rpc = "returned"
    /\ result = Sentinel
    /\ soil.soil_type = <<"P">>
    /\ seed.grows_in # {}

(***************************************************************************)
(* C10: the crop names recommend_crop returns are pairwise distinct: no    *)
(* alternative is the recommended crop and no alternative appears twice.   *)
(***************************************************************************)
C10_ReturnedNamesDistinct ==
    (rpc = "returned" /\ result # Sentinel /\ result # NoResult) =>
        LET names == <<result.crop>> \o result.alternatives
        IN  \A a, b \in DOMAIN names : a # b => names[a] # names[b]

=============================================================================
